---- MODULE Spec2Model ----
(***************************************************************************)
(* A model of xplane_apt_convert's path reconstruction:                    *)
(*   iterators.py  BIterator (the pushback cursor),                        *)
(*   geometry.py   _calculate_bezier and get_paths,                        *)
(*   classes.py    Boundary / Pavement / LinearFeature.from_row_iterator.  *)
(*                                                                         *)
(* Numbers.  Tokens are integers (float(tokens[i]) of an integral text).   *)
(* Every coordinate is held multiplied by Scale, so that the samples of a  *)
(* Bezier curve at the parameters k/(R-1) are exact integers: the model    *)
(* computes the curve in exact arithmetic where the code uses doubles.     *)
(* A point also carries the Python type of the object that holds it        *)
(* ("tuple" for (lon, lat), "list" for a row of ndarray.tolist()), because *)
(* `p0 == p2` in the code compares objects and a list never equals a tuple.*)
(***************************************************************************)
EXTENDS Integers, Sequences, FiniteSets, TLC

\* ---------------------------------------------------------------- bounds
MaxLen == 3
MaxRes == 3

\* ------------------------------------------------------ program constants
DEFAULT_BEZIER_RESOLUTION == 16

\* xplane_airports.AptDat.RowCode, as geometry.py and base.py name them
LINE_SEGMENT == 111
LINE_CURVE == 112
RING_SEGMENT == 113
RING_CURVE == 114
END_SEGMENT == 115
END_CURVE == 116
FREE_CHAIN == 120

GeometryCodes ==
    {LINE_SEGMENT, LINE_CURVE, RING_SEGMENT, RING_CURVE, END_SEGMENT, END_CURVE}

CurveCodes == {LINE_CURVE, RING_CURVE, END_CURVE}

\* ------------------------------------------------------------ arithmetic
RECURSIVE Pow(_, _)
Pow(b, e) == IF e = 0 THEN 1 ELSE b * Pow(b, e - 1)

\* Every sampling denominator (R-1)^3, R a caller's resolution or the
\* default one, divides Scale.
Scale == Pow((DEFAULT_BEZIER_RESOLUTION - 1) * (MaxRes - 1), 3)

\* ---------------------------------------------------------------- points
\* a tuple with the two numbers the other way round
PointLatLon(lon, lat) == [x |-> lat * Scale, y |-> lon * Scale, py |-> "tuple"]

\* The tuple (lon, lat) the code builds from two tokens.
Point(lon, lat) == [x |-> lon * Scale, y |-> lat * Scale, py |-> "tuple"]

\* tuple(c) == tuple(prev_c): equality of the two numbers, whatever holds them
TupleEq(c, d) == c.x = d.x /\ c.y = d.y

\* p == q on the objects themselves: a list never equals a tuple
PyEq(p, q) == p.py = q.py /\ p.x = q.x /\ p.y = q.y

\* Python's tokens[i] (0-based)
Tok(tokens, i) == tokens[i + 1]

\* ---------------------------------------------------------------- Bezier
\* The curve through 3 or 4 coordinates at t = k/n, by Bernstein polynomials.
\* Every coordinate is a multiple of Scale, so the divisions are exact.
Blend(v, k, n) ==
    IF Len(v) = 3
    THEN (n - k) * (n - k) * (v[1] \div (n * n))
         + 2 * k * (n - k) * (v[2] \div (n * n))
         + k * k * (v[3] \div (n * n))
    ELSE (n - k) * (n - k) * (n - k) * (v[1] \div (n * n * n))
         + 3 * k * (n - k) * (n - k) * (v[2] \div (n * n * n))
         + 3 * k * k * (n - k) * (v[3] \div (n * n * n))
         + k * k * k * (v[4] \div (n * n * n))

\* parameters (j-1)/resolution, which stop short of 1
LinspaceOpen(resolution) == resolution

\* np.linspace(0.0, 1.0, resolution): the parameters (j-1)/LinspaceDen,
\* j = 1..resolution; linspace(0, 1, 1) is [0.0].
LinspaceDen(resolution) == IF resolution > 1 THEN resolution - 1 ELSE 1

\* Curve.from_nodes(nodes).evaluate_multi(linspace).T.tolist()
EvaluateMulti(nodes, resolution) ==
    LET xs == [i \in 1..Len(nodes) |-> nodes[i].x]
        ys == [i \in 1..Len(nodes) |-> nodes[i].y]
        n == LinspaceDen(resolution)
    IN  [j \in 1..resolution |->
            [x |-> Blend(xs, j - 1, n), y |-> Blend(ys, j - 1, n), py |-> "list"]]

_calculate_quadratic_bezier(p0, p1, p2, resolution) ==
    IF PyEq(p0, p2) THEN <<p0>> ELSE EvaluateMulti(<<p0, p1, p2>>, resolution)

_calculate_cubic_bezier(p0, p1, p2, p3, resolution) ==
    IF PyEq(p0, p3) THEN <<p0>> ELSE EvaluateMulti(<<p0, p1, p2, p3>>, resolution)

\* _calculate_bezier(*nodes, resolution=...) for 3 or 4 nodes
_calculate_bezier(nodes, resolution) ==
    IF Len(nodes) = 3
    THEN _calculate_quadratic_bezier(nodes[1], nodes[2], nodes[3], resolution)
    ELSE _calculate_cubic_bezier(nodes[1], nodes[2], nodes[3], nodes[4], resolution)

\* ------------------------------------------------------------------ state
VARIABLES
    seq,                 \* BIterator._seq: the records
    idx,                 \* BIterator._idx
    mode,                \* get_paths' mode
    bezier_resolution,   \* get_paths' bezier_resolution
    coordinates,         \* the accumulator's points
    properties,          \* the accumulator's line types (a dict)
    temp_bezier_nodes,
    in_bezier,
    first_row,           \* <<>> for None, <<row>> otherwise
    first_row_is_bezier,
    coordinates_list,
    properties_list,
    more_segments,
    pc,                  \* "for", "done", "feature", "end", "error"
    err,                 \* the exception that left get_paths, or "none"
    features,            \* what from_row_iterator keeps of the result
    returned,            \* what the caller's next() after the call gave
    \* history of the call, read by the properties only
    bezier_calls,        \* every _calculate_bezier call: nodes, resolution, result
    row_log,             \* every _process_row call
    finish_log,          \* every _finish_segment call
    chain_log,           \* every pass of the while loop that has ended
    cursor_log,          \* every call made on the cursor
    \* the enum decoding of classes.py
    logged_unknowns,     \* the module's set of (cls, value) pairs warned about
    warnings,            \* what logger.warning was given, in order
    decoded,             \* every FallbackEnumMeta.__call__ made
    airports,            \* the number of ParsedAirport objects constructed
    \* ParsedAirport._parse of base.py
    parsed,              \* the ParsedAirport's boundary, pavements, linear_features
    dispatched           \* history: the index of every record _parse's loop got

\* the state of the enum decoding
enum_vars == <<logged_unknowns, warnings, decoded, airports>>

\* the state of ParsedAirport._parse
parse_vars == <<parsed, dispatched>>

\* ParsedAirport.__init__, lines 146-152: no boundary, no pavements, no
\* linear features (the other lists take no part in the model's inputs)
NoFeatures == [boundary |-> <<>>, pavements |-> <<>>, linear_features |-> <<>>]

vars == <<seq, idx, mode, bezier_resolution, coordinates, properties,
          temp_bezier_nodes, in_bezier, first_row, first_row_is_bezier,
          coordinates_list, properties_list, more_segments, pc, err, features,
          returned, bezier_calls, row_log, finish_log, chain_log, cursor_log,
          enum_vars, parse_vars>>

\* ------------------------------------------------------------- BIterator

\* a __next__ that leaves the index past the end when it raises StopIteration
next_overrunning(i) == [idx |-> i + 1, stop |-> i + 1 >= Len(seq)]

\* __next__: the index afterwards, and whether StopIteration was raised
__next__(i) ==
    LET j == i + 1
    IN  IF j >= Len(seq) THEN [idx |-> j - 1, stop |-> TRUE]
        ELSE [idx |-> j, stop |-> FALSE]

\* self._seq[self._idx]
RowAt(i) == seq[i + 1]

\* an unnext that leaves the cursor where it is
unnext_noop(i) == [idx |-> i, underflow |-> FALSE]

\* an unnext that stops at the start without raising
unnext_silent(i) == [idx |-> IF i - 1 < -1 THEN i ELSE i - 1, underflow |-> FALSE]

\* an unnext that goes back without looking where it is
unnext_unchecked(i) == [idx |-> i - 1, underflow |-> FALSE]

\* unnext: the index afterwards, and whether IndexError was raised
unnext(i) ==
    LET j == i - 1
    IN  IF j < -1 THEN [idx |-> j + 1, underflow |-> TRUE]
        ELSE [idx |-> j, underflow |-> FALSE]

\* a has_next that also says yes on the last record
has_next_inclusive(i) == i <= Len(seq) - 1

has_next(i) == i < Len(seq) - 1


\* What an exception that leaves get_paths says: the IndexError of
\* tokens[i] on a list that is too short carries Python's fixed text and
\* names no record (<<>>); so does the IndexError of unnext().
ErrorSays(e) ==
    [text |-> IF e = "IndexError" THEN "list index out of range" ELSE "",
     record |-> <<>>]

\* ------------------------------------------------ get_paths' local state
\* The locals of one get_paths call and the cursor it drives, as one record:
\* the nested functions of get_paths read and write them (nonlocal).
NoProperties == [k \in {} |-> 0]

Frame ==
    [coordinates |-> coordinates, properties |-> properties,
     temp_bezier_nodes |-> temp_bezier_nodes, in_bezier |-> in_bezier,
     coordinates_list |-> coordinates_list, properties_list |-> properties_list,
     idx |-> idx, err |-> "none",
     bezier_calls |-> bezier_calls, row_log |-> row_log, finish_log |-> finish_log,
     cursor_log |-> cursor_log]

Raise(f, e) == [f EXCEPT !.err = e]

\* what cursor_log keeps of a call on the cursor
NextNote(i) ==
    [op |-> "next", before |-> i, after |-> __next__(i).idx,
     result |-> IF __next__(i).stop THEN "StopIteration" ELSE "row",
     index |-> IF __next__(i).stop THEN -1 ELSE __next__(i).idx]

UnnextNote(i) ==
    [op |-> "unnext", before |-> i, after |-> unnext(i).idx,
     result |-> IF unnext(i).underflow THEN "IndexError" ELSE "None",
     index |-> -1]

HasNextNote(i) ==
    [op |-> "has_next", before |-> i, after |-> i,
     result |-> IF has_next(i) THEN "True" ELSE "False",
     index |-> -1]

\* next(row_iterator), row_iterator.unnext() and row_iterator.has_next()
\* called by get_paths: the cursor moves, the call is noted, and the
\* IndexError of unnext() is on its way out
NextRow(f) == [f EXCEPT !.idx = __next__(f.idx).idx,
                      !.cursor_log = Append(@, NextNote(f.idx))]


\* a call site that goes back by two records
UnnextTwice(f) ==
    LET g == [f EXCEPT !.idx = unnext(f.idx).idx,
                       !.cursor_log = Append(@, UnnextNote(f.idx)),
                       !.err = IF unnext(f.idx).underflow THEN "IndexError" ELSE @]
    IN  [g EXCEPT !.idx = unnext(g.idx).idx,
                  !.cursor_log = Append(@, UnnextNote(g.idx)),
                  !.err = IF unnext(g.idx).underflow THEN "IndexError" ELSE @]

Unnext(f) ==
    [f EXCEPT !.idx = unnext(f.idx).idx,
              !.cursor_log = Append(@, UnnextNote(f.idx)),
              !.err = IF unnext(f.idx).underflow THEN "IndexError" ELSE @]

HasNext(f) == [f EXCEPT !.cursor_log = Append(@, HasNextNote(f.idx))]


\* a _start_segment that keeps the line types of the segment before
_start_segment_keeping(f) == [f EXCEPT !.coordinates = <<>>]

_start_segment(f) == [f EXCEPT !.coordinates = <<>>, !.properties = NoProperties]

\* the loop of _finish_segment: prev_c is the last point kept
RECURSIVE FixedCoordinates(_, _, _)
FixedCoordinates(coords, i, fixed) ==
    IF i > Len(coords) THEN fixed
    ELSE IF fixed # <<>> /\ TupleEq(coords[i], fixed[Len(fixed)])
         THEN FixedCoordinates(coords, i + 1, fixed)
         ELSE FixedCoordinates(coords, i + 1, Append(fixed, coords[i]))

\* a _finish_segment that appends the accumulator as it is
_finish_segment_raw(f) ==
    IF Len(f.coordinates) > 1
    THEN [f EXCEPT !.coordinates_list = Append(@, f.coordinates),
                   !.properties_list = Append(@, f.properties)]
    ELSE f

_finish_segment(f) ==
    IF Len(f.coordinates) > 1
    THEN [f EXCEPT !.coordinates_list =
                       Append(@, FixedCoordinates(f.coordinates, 1, <<>>)),
                   !.properties_list = Append(@, f.properties)]
    ELSE f

\* _finish_segment, and a note of the call in finish_log
FinishSegment(f) ==
    LET g == _finish_segment(f)
    IN  [g EXCEPT !.finish_log =
            Append(@, [coordinates |-> f.coordinates,
                       emitted |-> Len(g.coordinates_list) > Len(f.coordinates_list)])]


\* an evaluation that leaves the nodes in temp_bezier_nodes
ExtendWithBezierKeeping(f, resolution) ==
    LET out == _calculate_bezier(f.temp_bezier_nodes, resolution)
    IN  [f EXCEPT !.coordinates = @ \o out,
                  !.bezier_calls =
                      Append(@, [nodes |-> f.temp_bezier_nodes,
                                 resolution |-> resolution,
                                 n |-> Len(out), first |-> out[1],
                                 last |-> out[Len(out)]])]

\* coordinates.extend(_calculate_bezier(*temp_bezier_nodes, resolution));
\* temp_bezier_nodes = []    (and a note of the call in bezier_calls)
ExtendWithBezier(f, resolution) ==
    LET out == _calculate_bezier(f.temp_bezier_nodes, resolution)
    IN  [f EXCEPT !.coordinates = @ \o out,
                  !.temp_bezier_nodes = <<>>,
                  !.bezier_calls =
                      Append(@, [nodes |-> f.temp_bezier_nodes,
                                 resolution |-> resolution,
                                 n |-> Len(out), first |-> out[1],
                                 last |-> out[Len(out)]])]

\* int(tokens[i]) if len(tokens) > i else None; None is <<>>, a value v is <<v>>
OptionalInt(tokens, i) == IF Len(tokens) > i THEN <<Tok(tokens, i)>> ELSE <<>>

\* x is not None and properties.get(key) is not None and x != properties[key]
Differs(props, key, x) ==
    x # <<>> /\ key \in DOMAIN props /\ x[1] # props[key]

LineTypeChanges(props, painted_line_type, lighting_line_type) ==
    \/ Differs(props, "painted_line_type", painted_line_type)
    \/ Differs(props, "lighting_line_type", lighting_line_type)

\* properties[key] = x, when x is not None
SetProperty(props, key, x) ==
    IF x = <<>> THEN props
    ELSE [k \in DOMAIN props \cup {key} |-> IF k = key THEN x[1] ELSE props[k]]

\* a tail of _process_row that splits the path in either mode
SplitOrMergeAnyMode(f, painted_line_type, lighting_line_type) ==
    IF LineTypeChanges(f.properties, painted_line_type, lighting_line_type)
    THEN IF has_next(f.idx)
         THEN Unnext(_start_segment(FinishSegment(HasNext(f))))
         ELSE HasNext(f)
    ELSE [f EXCEPT !.properties =
             SetProperty(SetProperty(@, "painted_line_type", painted_line_type),
                         "lighting_line_type", lighting_line_type)]

\* a tail of _process_row that splits the path without asking has_next()
SplitOrMergeAlways(f, painted_line_type, lighting_line_type) ==
    IF mode = "line"
       /\ LineTypeChanges(f.properties, painted_line_type, lighting_line_type)
    THEN Unnext(_start_segment(FinishSegment(f)))
    ELSE [f EXCEPT !.properties =
             SetProperty(SetProperty(@, "painted_line_type", painted_line_type),
                         "lighting_line_type", lighting_line_type)]

\* the tail of both branches of _process_row: split the path, or merge the
\* record's line types into the accumulator
SplitOrMerge(f, painted_line_type, lighting_line_type) ==
    IF mode = "line"
       /\ LineTypeChanges(f.properties, painted_line_type, lighting_line_type)
    THEN IF has_next(f.idx)
         THEN Unnext(_start_segment(FinishSegment(HasNext(f))))
         ELSE HasNext(f)
    ELSE [f EXCEPT !.properties =
             SetProperty(SetProperty(@, "painted_line_type", painted_line_type),
                         "lighting_line_type", lighting_line_type)]


\* a mirrored control point that is the control point itself
MirrorNone(lon, lat, bzp_lon, bzp_lat) == Point(bzp_lon, bzp_lat)

\* the mirrored control point (mirr_lon, mirr_lat)
Mirror(lon, lat, bzp_lon, bzp_lat) ==
    Point(lon - (bzp_lon - lon), lat - (bzp_lat - lat))

_process_row(f, is_bezier, tokens) ==
    IF Len(tokens) < 3 THEN Raise(f, "IndexError")
    ELSE
    LET lat == Tok(tokens, 1)
        lon == Tok(tokens, 2)
    IN  IF ~is_bezier
        THEN LET g == IF f.in_bezier
                      THEN ExtendWithBezier(
                               [f EXCEPT !.temp_bezier_nodes =
                                             Append(@, Point(lon, lat))],
                               DEFAULT_BEZIER_RESOLUTION)
                      ELSE [f EXCEPT !.coordinates = Append(@, Point(lon, lat))]
             IN  SplitOrMerge([g EXCEPT !.in_bezier = FALSE],
                              OptionalInt(tokens, 3), OptionalInt(tokens, 4))
        ELSE IF Len(tokens) < 5 THEN Raise(f, "IndexError")
        ELSE
        LET bzp_lat == Tok(tokens, 3)
            bzp_lon == Tok(tokens, 4)
            g == IF f.in_bezier
                 THEN ExtendWithBezier(
                          [f EXCEPT !.temp_bezier_nodes =
                               @ \o <<Mirror(lon, lat, bzp_lon, bzp_lat),
                                      Point(lon, lat)>>],
                          bezier_resolution)
                 ELSE IF Len(f.coordinates) > 0
                 THEN ExtendWithBezier(
                          [f EXCEPT !.temp_bezier_nodes =
                               @ \o <<f.coordinates[Len(f.coordinates)],
                                      Mirror(lon, lat, bzp_lon, bzp_lat),
                                      Point(lon, lat)>>],
                          bezier_resolution)
                 ELSE f
            h == [g EXCEPT !.temp_bezier_nodes =
                               @ \o <<Point(lon, lat), Point(bzp_lon, bzp_lat)>>,
                           !.in_bezier = TRUE]
        IN  SplitOrMerge(h, OptionalInt(tokens, 5), OptionalInt(tokens, 6))

\* the note of one call of _process_row in row_log: f is the frame before the
\* call and g the frame after it
RowNote(f, g, is_bezier, tokens) ==
    LET k == IF is_bezier THEN 5 ELSE 3
        finished == Len(g.finish_log) > Len(f.finish_log)
        acc == IF finished THEN g.finish_log[Len(g.finish_log)].coordinates
               ELSE g.coordinates
    IN  [tokens |-> tokens,
         is_bezier |-> is_bezier,
         changes |-> /\ g.err = "none"
                     /\ LineTypeChanges(f.properties,
                            OptionalInt(tokens, k),
                            OptionalInt(tokens, k + 1)),
         has_next |-> has_next(f.idx),
         rewound |-> g.idx < f.idx,
         finished |-> finished,
         finishes |-> Len(g.finish_log),
         fresh |-> g.coordinates = <<>> /\ g.properties = NoProperties,
         kept |-> g.properties = f.properties,
         point |-> IF acc = <<>> THEN <<>> ELSE <<acc[Len(acc)]>>,
         nodes |-> g.temp_bezier_nodes,
         chain |-> Len(chain_log) + 1,
         was_bezier |-> f.in_bezier,
         calls |-> Len(g.bezier_calls),
         called |-> Len(g.bezier_calls) - Len(f.bezier_calls),
         emitted |-> Len(g.coordinates_list) - Len(f.coordinates_list),
         n_paths |-> Len(g.coordinates_list)]

\* the frame after the call with its note added to row_log; a call that
\* raised leaves no note
Noted(f, g, is_bezier, tokens) ==
    IF g.err # "none" THEN g
    ELSE [g EXCEPT !.row_log = Append(@, RowNote(f, g, is_bezier, tokens))]

\* _process_row, and a note of the call in row_log; nothing runs once an
\* exception is on its way out
ProcessRow(f, is_bezier, tokens) ==
    IF f.err # "none" THEN f
    ELSE Noted(f, _process_row(f, is_bezier, tokens), is_bezier, tokens)

\* ----------------------------------------------------------------- inputs
\* A record: AptDatLine.row_code and AptDatLine.tokens (tokens[0] is the code)
Row(code, fields) == [row_code |-> code, tokens |-> <<code>> \o fields]

\* a straight record at (lat, lon) with its trailing line types
StraightRow(code, v, types) == Row(code, v \o types)

\* a curve record at (lat, lon); its control point is (lat + 1, lon + 2)
CurveRow(code, v, types) == Row(code, v \o <<v[1] + 1, v[2] + 2>> \o types)

GeometryRow(code, v, types) ==
    IF code \in CurveCodes THEN CurveRow(code, v, types)
    ELSE StraightRow(code, v, types)

\* a record of another kind: the header of the next feature
OtherRow == Row(FREE_CHAIN, <<>>)

\* First family: records without line types at one of two places
\* (<<lat, lon>>), in every order: repeated points, rings, curves.
Places == {<<0, 0>>, <<0, 1>>}

PlainRows ==
    {GeometryRow(c, v, <<>>) : c \in GeometryCodes, v \in Places} \cup {OtherRow}

PlainInputs == UNION {[1..n -> PlainRows] : n \in 0..MaxLen}

\* Second family: the i-th record lies at the i-th corner of a square and
\* carries a painted and a lighting line type.
Corner(i) == <<<<0, 0>>, <<0, 1>>, <<1, 1>>, <<1, 0>>>>[((i - 1) % 4) + 1]

LineTypes == {<<1, 1>>, <<1, 2>>, <<2, 2>>}

\* what varies in a record of the second family: its row code and line types
Shapes == (GeometryCodes \X LineTypes) \cup {<<FREE_CHAIN, <<>>>>}

TypedRow(shape, i) ==
    IF shape[1] \in GeometryCodes THEN GeometryRow(shape[1], Corner(i), shape[2])
    ELSE OtherRow

TypedInputs ==
    UNION {{[i \in 1..n |-> TypedRow(sh[i], i)] : sh \in [1..n -> Shapes]} :
               n \in 1..MaxLen}

\* Third family: MaxLen typed records of a chain that closes, then the header
\* of the next feature; long enough for a line type to change along the
\* chain, at the ring-closing record and at the first record processed again.
ClosingShapes == {LINE_SEGMENT, RING_SEGMENT, RING_CURVE} \X LineTypes

ClosingInputs ==
    {[i \in 1..(MaxLen + 1) |->
          IF i <= MaxLen THEN TypedRow(sh[i], i) ELSE OtherRow] :
        sh \in [1..MaxLen -> ClosingShapes]}

\* Fourth family: a geometry record cut short, with too few tokens for its
\* kind, alone or after a good record.
Truncated(row, n) == [row EXCEPT !.tokens = SubSeq(@, 1, n)]

MalformedRows ==
    {Truncated(GeometryRow(c, <<0, 1>>, <<>>), n) :
        c \in GeometryCodes, n \in 1..2} \cup
    {Truncated(GeometryRow(c, <<0, 1>>, <<>>), n) : c \in CurveCodes, n \in 3..4}

MalformedInputs ==
    {<<m>> : m \in MalformedRows} \cup
    {<<g, m>> : g \in PlainRows \ {OtherRow}, m \in MalformedRows}


\* Fifth family: two chains of two records each, one after the other like
\* the outer ring and the hole of a pavement, and then nothing or the header
\* of the next feature.
HoleShapes ==
    {LINE_SEGMENT, LINE_CURVE} \X
        {RING_SEGMENT, RING_CURVE, END_SEGMENT, END_CURVE}

HoleInputs ==
    {<<GeometryRow(sh[1][1], Corner(1), <<>>),
       GeometryRow(sh[1][2], Corner(2), <<>>),
       GeometryRow(sh[2][1], Corner(3), <<>>),
       GeometryRow(sh[2][2], Corner(4), <<>>)>> \o tail :
        sh \in HoleShapes \X HoleShapes, tail \in {<<>>, <<OtherRow>>}}

Resolutions == {1, MaxRes}

Modes == {"line", "polygon"}

\* The calls get_paths(BIterator(seq), bezier_resolution, mode) of the model
Calls ==
    (PlainInputs \cup TypedInputs \cup ClosingInputs \cup MalformedInputs
        \cup HoleInputs) \X Resolutions \X Modes

\* ------------------------------------------------------------------- Init
\* A call get_paths(row_iterator, bezier_resolution, mode) on a fresh cursor
\* has entered the while loop: lines 38-41 and 171-181 have run.
Start(calls) ==
    /\ \E call \in calls :
           /\ seq = call[1]
           /\ bezier_resolution = call[2]
           /\ mode = call[3]
    /\ idx = -1
    /\ coordinates = <<>>
    /\ properties = NoProperties
    /\ temp_bezier_nodes = <<>>
    /\ in_bezier = FALSE
    /\ first_row = <<>>
    /\ first_row_is_bezier = FALSE
    /\ coordinates_list = <<>>
    /\ properties_list = <<>>
    /\ more_segments = TRUE
    /\ pc = "for"
    /\ err = "none"
    /\ features = <<>>
    /\ returned = [kind |-> "nothing", index |-> -1]
    /\ bezier_calls = <<>>
    /\ row_log = <<>>
    /\ finish_log = <<>>
    /\ chain_log = <<>>
    /\ cursor_log = <<>>
    /\ logged_unknowns = {}
    /\ warnings = <<>>
    /\ decoded = <<>>
    /\ airports = 0
    /\ parsed = NoFeatures
    /\ dispatched = <<>>

Init == Start(Calls)

\* ---------------------------------------------------------------- actions
\* write the locals back (the frame is worked out once, then written)
Commit(after) ==
    \E f \in {after} :
        /\ coordinates' = f.coordinates
        /\ properties' = f.properties
        /\ temp_bezier_nodes' = f.temp_bezier_nodes
        /\ in_bezier' = f.in_bezier
        /\ coordinates_list' = f.coordinates_list
        /\ properties_list' = f.properties_list
        /\ idx' = f.idx
        /\ err' = f.err
        /\ bezier_calls' = f.bezier_calls
        /\ row_log' = f.row_log
        /\ finish_log' = f.finish_log
        /\ cursor_log' = f.cursor_log

\* `for row in row_iterator` gives a record: line 183
Reads == pc = "for" /\ ~__next__(idx).stop

\* the record read
Row0 == RowAt(__next__(idx).idx)

\* the locals once it is read
Read == NextRow(Frame)

\* first_row and first_row_is_bezier after lines 184-190, which run when the
\* for loop gave a record
FirstRow ==
    IF first_row = <<>> /\ ~__next__(idx).stop THEN <<Row0>> ELSE first_row

FirstRowIsBezier ==
    IF first_row = <<>> /\ ~__next__(idx).stop
    THEN Row0.row_code \in CurveCodes
    ELSE first_row_is_bezier

\* the for loop goes on to its next record
Stay(after) ==
    \E f \in {after} :
        /\ Commit(f)
        /\ pc' = IF f.err = "none" THEN "for" ELSE "error"
        /\ first_row' = FirstRow
        /\ first_row_is_bezier' = FirstRowIsBezier
        /\ UNCHANGED <<more_segments, chain_log>>

\* lines 176-181, at the head of the next pass of the while loop
NextPass(f) == [_start_segment(f) EXCEPT !.temp_bezier_nodes = <<>>,
                                          !.in_bezier = FALSE]

\* The for loop is left (break, or its else branch): _finish_segment() of
\* line 221, then either the next pass of the while loop begins or get_paths
\* returns (lines 223-224).  An exception leaves get_paths at once.
\* chain_log notes the pass: the index the last next() moved to, the index
\* the next one moves to, how the loop was left, and the numbers of paths and
\* of _finish_segment calls so far.
Leave(after, more, why) ==
    \E f \in {after} :
        /\ more_segments' = more
        /\ IF f.err # "none"
           THEN /\ Commit(f)
                /\ pc' = "error"
                /\ first_row' = FirstRow
                /\ first_row_is_bezier' = FirstRowIsBezier
                /\ UNCHANGED chain_log
           ELSE \E g \in {FinishSegment(f)} :
                    /\ chain_log' =
                           Append(chain_log,
                                  [last |-> __next__(idx).idx,
                                   resume |-> f.idx + 1,
                                   why |-> why,
                                   paths |-> Len(g.coordinates_list),
                                   finishes |-> Len(g.finish_log)])
                    /\ IF more
                       THEN /\ Commit(NextPass(g))
                            /\ pc' = "for"
                            /\ first_row' = <<>>
                            /\ first_row_is_bezier' = FALSE
                       ELSE /\ Commit(g)
                            /\ pc' = "done"
                            /\ first_row' = FirstRow
                            /\ first_row_is_bezier' = FirstRowIsBezier

LineSegment ==
    /\ Reads
    /\ Row0.row_code = LINE_SEGMENT
    /\ Stay(ProcessRow(Read, FALSE, Row0.tokens))
    /\ UNCHANGED <<seq, mode, bezier_resolution, features, returned,
                   enum_vars, parse_vars>>

LineCurve ==
    /\ Reads
    /\ Row0.row_code = LINE_CURVE
    /\ Stay(ProcessRow(Read, TRUE, Row0.tokens))
    /\ UNCHANGED <<seq, mode, bezier_resolution, features, returned,
                   enum_vars, parse_vars>>

\* a RING_SEGMENT handler that does not process first_row again
RingSegmentOpen ==
    /\ Reads
    /\ Row0.row_code = RING_SEGMENT
    /\ Leave(ProcessRow(Read, FALSE, Row0.tokens), more_segments, "ring")
    /\ UNCHANGED <<seq, mode, bezier_resolution, features, returned,
                   enum_vars, parse_vars>>


\* a RING_SEGMENT handler that also ends the while loop
RingSegmentReturns ==
    /\ Reads
    /\ Row0.row_code = RING_SEGMENT
    /\ Leave(ProcessRow(ProcessRow(Read, FALSE, Row0.tokens),
                        FirstRowIsBezier, FirstRow[1].tokens),
             FALSE, "ring")
    /\ UNCHANGED <<seq, mode, bezier_resolution, features, returned,
                   enum_vars, parse_vars>>

RingSegment ==
    /\ Reads
    /\ Row0.row_code = RING_SEGMENT
    /\ Leave(ProcessRow(ProcessRow(Read, FALSE, Row0.tokens),
                        FirstRowIsBezier, FirstRow[1].tokens),
             more_segments, "ring")
    /\ UNCHANGED <<seq, mode, bezier_resolution, features, returned,
                   enum_vars, parse_vars>>

RingCurve ==
    /\ Reads
    /\ Row0.row_code = RING_CURVE
    /\ Leave(ProcessRow(ProcessRow(Read, TRUE, Row0.tokens),
                        FirstRowIsBezier, FirstRow[1].tokens),
             more_segments, "ring")
    /\ UNCHANGED <<seq, mode, bezier_resolution, features, returned,
                   enum_vars, parse_vars>>

\* an END_SEGMENT handler that also ends the while loop
EndSegmentReturns ==
    /\ Reads
    /\ Row0.row_code = END_SEGMENT
    /\ Leave(ProcessRow(Read, FALSE, Row0.tokens), FALSE, "end")
    /\ UNCHANGED <<seq, mode, bezier_resolution, features, returned,
                   enum_vars, parse_vars>>

EndSegment ==
    /\ Reads
    /\ Row0.row_code = END_SEGMENT
    /\ Leave(ProcessRow(Read, FALSE, Row0.tokens), more_segments, "end")
    /\ UNCHANGED <<seq, mode, bezier_resolution, features, returned,
                   enum_vars, parse_vars>>

EndCurve ==
    /\ Reads
    /\ Row0.row_code = END_CURVE
    /\ Leave(ProcessRow(Read, TRUE, Row0.tokens), more_segments, "end")
    /\ UNCHANGED <<seq, mode, bezier_resolution, features, returned,
                   enum_vars, parse_vars>>


\* a handler of the other row codes that keeps the record it read
UnrelatedConsumed ==
    /\ Reads
    /\ Row0.row_code \notin GeometryCodes
    /\ Leave(Read, FALSE, "other")
    /\ UNCHANGED <<seq, mode, bezier_resolution, features, returned,
                   enum_vars, parse_vars>>

\* any other row code: lines 213-216
Unrelated ==
    /\ Reads
    /\ Row0.row_code \notin GeometryCodes
    /\ Leave(Unnext(Read), FALSE, "other")
    /\ UNCHANGED <<seq, mode, bezier_resolution, features, returned,
                   enum_vars, parse_vars>>


\* a for-else branch that returns without the closing _finish_segment()
ExhaustedUnfinished ==
    /\ pc = "for"
    /\ __next__(idx).stop
    /\ more_segments' = FALSE
    /\ Commit(Read)
    /\ chain_log' = Append(chain_log,
                           [last |-> __next__(idx).idx,
                            resume |-> __next__(idx).idx + 1,
                            why |-> "exhausted",
                            paths |-> Len(coordinates_list),
                            finishes |-> Len(finish_log)])
    /\ pc' = "done"
    /\ UNCHANGED <<first_row, first_row_is_bezier>>
    /\ UNCHANGED <<seq, mode, bezier_resolution, features, returned,
                   enum_vars, parse_vars>>

\* there is no more rows: lines 217-219
Exhausted ==
    /\ pc = "for"
    /\ __next__(idx).stop
    /\ Leave(Read, FALSE, "exhausted")
    /\ UNCHANGED <<seq, mode, bezier_resolution, features, returned,
                   enum_vars, parse_vars>>

\* a filter that keeps every path
AllPaths(paths) == paths

\* [c for c in coordinates_list if len(c) > 2]
Rings(paths) == SelectSeq(paths, LAMBDA c : Len(c) > 2)

\* the coordinates of [LinearFeature(...) for ... if len(coordinates) > 1]
Lines(paths) == SelectSeq(paths, LAMBDA c : Len(c) > 1)

\* Boundary / Pavement .from_row_iterator (mode "polygon") and
\* LinearFeature.from_row_iterator (mode "line") keep what get_paths returned
FromRowIterator ==
    /\ pc = "done"
    /\ features' = IF mode = "polygon" THEN Rings(coordinates_list)
                   ELSE Lines(coordinates_list)
    /\ pc' = "feature"
    /\ UNCHANGED <<seq, idx, mode, bezier_resolution, coordinates, properties,
                   temp_bezier_nodes, in_bezier, first_row, first_row_is_bezier,
                   coordinates_list, properties_list, more_segments, err,
                   returned, bezier_calls, row_log, finish_log,
                   chain_log, cursor_log, enum_vars, parse_vars>>

\* the caller's next() on the same cursor after get_paths returned
CallerNext ==
    /\ pc = "feature"
    /\ idx' = __next__(idx).idx
    /\ returned' = IF __next__(idx).stop
                    THEN [kind |-> "StopIteration", index |-> -1]
                    ELSE [kind |-> "row", index |-> __next__(idx).idx]
    /\ cursor_log' = Append(cursor_log, NextNote(idx))
    /\ pc' = "end"
    /\ UNCHANGED <<seq, mode, bezier_resolution, coordinates, properties,
                   temp_bezier_nodes, in_bezier, first_row, first_row_is_bezier,
                   coordinates_list, properties_list, more_segments, err,
                   features, bezier_calls, row_log, finish_log,
                   chain_log, enum_vars, parse_vars>>

Next ==
    \/ LineSegment
    \/ LineCurve
    \/ RingSegment
    \/ RingCurve
    \/ EndSegment
    \/ EndCurve
    \/ Unrelated
    \/ Exhausted
    \/ FromRowIterator
    \/ CallerNext

Spec == Init /\ [][Next]_vars

\* The same program, run to its end: the interpreter goes on executing the
\* call, and the caller's code after it, as long as a step is left to take.
\* Its calls: MaxLen records of any kind with one of two pairs of line types,
\* and the chains that close of the third family.
FairShapes ==
    (GeometryCodes \X {<<1, 1>>, <<2, 2>>}) \cup {<<FREE_CHAIN, <<>>>>}

FairInputs ==
    {[i \in 1..MaxLen |-> TypedRow(sh[i], i)] : sh \in [1..MaxLen -> FairShapes]}
        \cup ClosingInputs

FairCalls == FairInputs \X {MaxRes} \X Modes

FairInit == Start(FairCalls)

\* get_paths or its caller has a step left to take: the states in which Next
\* is enabled
Running == pc \in {"for", "done", "feature"}

\* Weak fairness of Next, WF_vars(Next), with ENABLED <<Next>>_vars written
\* out as Running.
FairSpec == FairInit /\ [][Next]_vars /\ ([]<>~Running \/ []<><<Next>>_vars)

\* ================================================= the cursor on its own
\* A second specification: a caller drives a BIterator directly, by any
\* MaxCalls calls of next(), unnext() and has_next().
MaxCalls == 5

\* sequences of 0..MaxLen records, the i-th one at the i-th corner
CursorInputs ==
    {[i \in 1..n |-> StraightRow(LINE_SEGMENT, Corner(i), <<>>)] : n \in 0..MaxLen}

\* BIterator(seq): lines 2-4
CursorInit ==
    /\ seq \in CursorInputs
    /\ idx = -1
    /\ cursor_log = <<>>
    /\ pc = "cursor"
    /\ mode = "line"
    /\ bezier_resolution = 1
    /\ coordinates = <<>>
    /\ properties = NoProperties
    /\ temp_bezier_nodes = <<>>
    /\ in_bezier = FALSE
    /\ first_row = <<>>
    /\ first_row_is_bezier = FALSE
    /\ coordinates_list = <<>>
    /\ properties_list = <<>>
    /\ more_segments = TRUE
    /\ err = "none"
    /\ features = <<>>
    /\ returned = [kind |-> "nothing", index |-> -1]
    /\ bezier_calls = <<>>
    /\ row_log = <<>>
    /\ finish_log = <<>>
    /\ chain_log = <<>>
    /\ logged_unknowns = {}
    /\ warnings = <<>>
    /\ decoded = <<>>
    /\ airports = 0
    /\ parsed = NoFeatures
    /\ dispatched = <<>>

\* a call on the cursor touches nothing but the cursor
CursorOnly ==
    /\ pc = "cursor"
    /\ Len(cursor_log) < MaxCalls
    /\ UNCHANGED <<seq, mode, bezier_resolution, coordinates, properties,
                   temp_bezier_nodes, in_bezier, first_row, first_row_is_bezier,
                   coordinates_list, properties_list, more_segments, pc, err,
                   features, returned, bezier_calls, row_log, finish_log,
                   chain_log, enum_vars, parse_vars>>

\* next(row_iterator)
CallNext ==
    /\ CursorOnly
    /\ idx' = __next__(idx).idx
    /\ cursor_log' = Append(cursor_log, NextNote(idx))

\* row_iterator.unnext()
CallUnnext ==
    /\ CursorOnly
    /\ idx' = unnext(idx).idx
    /\ cursor_log' = Append(cursor_log, UnnextNote(idx))

\* row_iterator.has_next()
CallHasNext ==
    /\ CursorOnly
    /\ idx' = idx
    /\ cursor_log' = Append(cursor_log, HasNextNote(idx))

CursorNext ==
    \/ CallNext
    \/ CallUnnext
    \/ CallHasNext

CursorSpec == CursorInit /\ [][CursorNext]_vars


\* ==================================================== the enum decoding
\* A third specification: a process constructs up to MaxAirports
\* ParsedAirport objects one after the other, and the parsing of each decodes
\* attribute codes by calling a FallbackEnum class; MaxDecodings calls in all.
MaxDecodings == 4

MaxAirports == 2

\* the values of the members of two of the FallbackEnum classes
ShoulderSurfaceType == {0, 1, 2}

SurfaceType == {1, 2, 3, 4, 5, 12, 13, 14, 15}

EnumClasses == {"ShoulderSurfaceType", "SurfaceType"}

Members(cls) ==
    IF cls = "ShoulderSurfaceType" THEN ShoulderSurfaceType ELSE SurfaceType

\* what is decoded: None (<<>>) or a code <<v>>; 1 is a member of both
\* classes, 0 of one of them, 7 of neither
Values == {<<>>, <<0>>, <<1>>, <<7>>}

\* the name of a member, of Fallback(None) and of Fallback(f"UNKNOWN_{value}")
MemberName(cls, v) == [kind |-> "member", of |-> cls, text |-> <<v>>]

FallbackName(value) ==
    IF value = <<>> THEN [kind |-> "Fallback", of |-> "", text |-> <<>>]
    ELSE [kind |-> "Fallback", of |-> "", text |-> <<"UNKNOWN_", value[1]>>]

\* a FallbackEnumMeta.__call__ that warns about every unknown value it meets
call_warning_always(cls, value) ==
    IF value # <<>> /\ value[1] \in Members(cls)
    THEN [name |-> MemberName(cls, value[1]), raised |-> FALSE, warned |-> FALSE,
          logged_unknowns |-> logged_unknowns]
    ELSE IF value = <<>>
    THEN [name |-> FallbackName(value), raised |-> FALSE, warned |-> FALSE,
          logged_unknowns |-> logged_unknowns]
    ELSE [name |-> FallbackName(value), raised |-> FALSE, warned |-> TRUE,
          logged_unknowns |-> logged_unknowns \cup {<<cls, value>>}]

\* FallbackEnumMeta.__call__(cls, value) with names left at None: what it
\* returns, whether it raised, whether it called logger.warning, and
\* logged_unknowns afterwards
__call__(cls, value) ==
    IF value # <<>> /\ value[1] \in Members(cls)
    THEN [name |-> MemberName(cls, value[1]), raised |-> FALSE, warned |-> FALSE,
          logged_unknowns |-> logged_unknowns]
    ELSE IF value = <<>>
    THEN [name |-> FallbackName(value), raised |-> FALSE, warned |-> FALSE,
          logged_unknowns |-> logged_unknowns]
    ELSE [name |-> FallbackName(value), raised |-> FALSE,
          warned |-> <<cls, value>> \notin logged_unknowns,
          logged_unknowns |-> logged_unknowns \cup {<<cls, value>>}]

\* the import of classes.py: line 22; no airport is parsed yet
EnumInit ==
    /\ logged_unknowns = {}
    /\ warnings = <<>>
    /\ decoded = <<>>
    /\ airports = 0
    /\ parsed = NoFeatures
    /\ dispatched = <<>>
    /\ pc = "enum"
    /\ seq = <<>>
    /\ idx = -1
    /\ cursor_log = <<>>
    /\ mode = "line"
    /\ bezier_resolution = 1
    /\ coordinates = <<>>
    /\ properties = NoProperties
    /\ temp_bezier_nodes = <<>>
    /\ in_bezier = FALSE
    /\ first_row = <<>>
    /\ first_row_is_bezier = FALSE
    /\ coordinates_list = <<>>
    /\ properties_list = <<>>
    /\ more_segments = TRUE
    /\ err = "none"
    /\ features = <<>>
    /\ returned = [kind |-> "nothing", index |-> -1]
    /\ bezier_calls = <<>>
    /\ row_log = <<>>
    /\ finish_log = <<>>
    /\ chain_log = <<>>

\* the decoding touches nothing of get_paths or of the cursor
EnumOnly ==
    /\ pc = "enum"
    /\ UNCHANGED <<seq, idx, mode, bezier_resolution, coordinates, properties,
                   temp_bezier_nodes, in_bezier, first_row, first_row_is_bezier,
                   coordinates_list, properties_list, more_segments, pc, err,
                   features, returned, bezier_calls, row_log, finish_log,
                   chain_log, cursor_log, parse_vars>>

\* ParsedAirport(airport): __init__ sets the object's fields and calls _parse,
\* which makes a cursor; neither touches logged_unknowns
ParsedAirport ==
    /\ EnumOnly
    /\ airports < MaxAirports
    /\ airports' = airports + 1
    /\ UNCHANGED <<logged_unknowns, warnings, decoded>>

\* one decoding made while the airport constructed last is parsed, such as
\* SurfaceType(int(tokens[1]))
Decode ==
    /\ EnumOnly
    /\ airports >= 1
    /\ Len(decoded) < MaxDecodings
    /\ \E cls \in EnumClasses, value \in Values :
           /\ logged_unknowns' = __call__(cls, value).logged_unknowns
           /\ warnings' =
                  IF __call__(cls, value).warned
                  THEN Append(warnings,
                              [cls |-> cls, value |-> value, airport |-> airports])
                  ELSE warnings
           /\ decoded' =
                  Append(decoded,
                         [cls |-> cls, value |-> value, airport |-> airports,
                          name |-> __call__(cls, value).name,
                          raised |-> __call__(cls, value).raised,
                          warned |-> __call__(cls, value).warned])
    /\ UNCHANGED airports

EnumNext ==
    \/ ParsedAirport
    \/ Decode

EnumSpec == EnumInit /\ [][EnumNext]_vars


\* ================================================= ParsedAirport._parse
\* A fourth specification: ParsedAirport._parse reads the records of one
\* airport with one cursor, and hands that cursor to get_paths at each
\* header of a boundary, a pavement or a linear feature.
MaxRecords == 4

TAXIWAY == 110

BOUNDARY == 130

\* the row codes at which _parse calls a from_row_iterator
HeaderCodes == {BOUNDARY, TAXIWAY, FREE_CHAIN}

\* What varies in a record of an airport: its row code, its line types, and
\* whether it has all its tokens.  The geometry kinds, two of them with either
\* pair of line types; the three headers; a record of a kind no branch of
\* _parse handles (101, a water runway); a LINE_SEGMENT cut short.
ParseKinds ==
    {[row_code |-> c, types |-> t, whole |-> TRUE] :
        c \in {LINE_SEGMENT, RING_SEGMENT}, t \in {<<1, 1>>, <<2, 2>>}} \cup
    {[row_code |-> c, types |-> <<1, 1>>, whole |-> TRUE] :
        c \in {LINE_CURVE, RING_CURVE, END_SEGMENT, END_CURVE}} \cup
    {[row_code |-> c, types |-> <<>>, whole |-> TRUE] :
        c \in HeaderCodes \cup {101}} \cup
    {[row_code |-> LINE_SEGMENT, types |-> <<>>, whole |-> FALSE]}

\* the i-th record of an airport: a geometry record lies at the i-th corner
\* of a square; a pavement header carries its surface type, smoothness and
\* texture orientation
ParseRow(kind, i) ==
    IF ~kind.whole
    THEN Truncated(GeometryRow(kind.row_code, Corner(i), <<>>), 2)
    ELSE IF kind.row_code \in GeometryCodes
    THEN GeometryRow(kind.row_code, Corner(i), kind.types)
    ELSE IF kind.row_code = TAXIWAY THEN Row(TAXIWAY, <<1, 0, 0>>)
    ELSE Row(kind.row_code, <<>>)

\* self._airport.text: n records, of the kinds k[1] .. k[n]
ParseInput(n, k) == [i \in 1..n |-> ParseRow(k[i], i)]

\* ParsedAirport(airport, bezier_resolution): __init__ has set the fields
\* and _parse has made its cursor (line 158)
ParseInit ==
    /\ \E n \in 0..MaxRecords :
           \E k \in [1..n -> ParseKinds] : seq = ParseInput(n, k)
    /\ bezier_resolution = MaxRes
    /\ idx = -1
    /\ pc = "parse"
    /\ parsed = NoFeatures
    /\ dispatched = <<>>
    /\ cursor_log = <<>>
    /\ mode = "line"
    /\ coordinates = <<>>
    /\ properties = NoProperties
    /\ temp_bezier_nodes = <<>>
    /\ in_bezier = FALSE
    /\ first_row = <<>>
    /\ first_row_is_bezier = FALSE
    /\ coordinates_list = <<>>
    /\ properties_list = <<>>
    /\ more_segments = TRUE
    /\ err = "none"
    /\ features = <<>>
    /\ returned = [kind |-> "nothing", index |-> -1]
    /\ bezier_calls = <<>>
    /\ row_log = <<>>
    /\ finish_log = <<>>
    /\ chain_log = <<>>
    /\ logged_unknowns = {}
    /\ warnings = <<>>
    /\ decoded = <<>>
    /\ airports = 1

\* `for row in row_iterator` of line 160 gives a record
Dispatches ==
    /\ pc = "parse"
    /\ ~__next__(idx).stop
    /\ idx' = __next__(idx).idx
    /\ cursor_log' = Append(cursor_log, NextNote(idx))
    /\ dispatched' = Append(dispatched, __next__(idx).idx)

\* a record that is no header: none of the branches the model's records can
\* take (lines 169-177, 213-230) is entered, and the loop goes on
Skip ==
    /\ Dispatches
    /\ Row0.row_code \notin HeaderCodes
    /\ UNCHANGED <<seq, mode, bezier_resolution, coordinates, properties,
                   temp_bezier_nodes, in_bezier, first_row, first_row_is_bezier,
                   coordinates_list, properties_list, more_segments, pc, err,
                   features, returned, bezier_calls, row_log, finish_log,
                   chain_log, enum_vars, parsed>>

\* a BOUNDARY, TAXIWAY or FREE_CHAIN header (lines 169-174, 213-218,
\* 223-228): from_row_iterator calls get_paths with _parse's cursor, in mode
\* "polygon" or "line" (classes.py 214-218, 264-268, 333-337), and get_paths
\* enters its while loop (geometry.py 38-41, 171-181).  The histories of the
\* call begin anew.
Header ==
    /\ Dispatches
    /\ Row0.row_code \in HeaderCodes
    /\ mode' = IF Row0.row_code = FREE_CHAIN THEN "line" ELSE "polygon"
    /\ coordinates' = <<>>
    /\ properties' = NoProperties
    /\ temp_bezier_nodes' = <<>>
    /\ in_bezier' = FALSE
    /\ first_row' = <<>>
    /\ first_row_is_bezier' = FALSE
    /\ coordinates_list' = <<>>
    /\ properties_list' = <<>>
    /\ more_segments' = TRUE
    /\ features' = <<>>
    /\ bezier_calls' = <<>>
    /\ row_log' = <<>>
    /\ finish_log' = <<>>
    /\ chain_log' = <<>>
    /\ pc' = "for"
    /\ UNCHANGED <<seq, bezier_resolution, err, returned, enum_vars, parsed>>

\* the header the call under way was made for
HeaderIndex == dispatched[Len(dispatched)]

\* self.boundary = boundary (line 177), self.pavements.append(pavement)
\* (line 221), self.linear_features.append(line) for each line (lines
\* 226-230)
Kept(header, kept) ==
    IF RowAt(header).row_code = BOUNDARY
    THEN [parsed EXCEPT !.boundary = <<[header |-> header, coordinates |-> kept]>>]
    ELSE IF RowAt(header).row_code = TAXIWAY
    THEN [parsed EXCEPT !.pavements =
              Append(@, [header |-> header, coordinates |-> kept])]
    ELSE [parsed EXCEPT !.linear_features =
              @ \o [j \in 1..Len(kept) |-> [header |-> header, coordinates |-> kept[j]]]]

\* from_row_iterator has returned: _parse keeps the feature and its loop
\* goes on
Keep ==
    /\ pc = "feature"
    /\ parsed' = Kept(HeaderIndex, features)
    /\ pc' = "parse"
    /\ UNCHANGED <<seq, idx, mode, bezier_resolution, coordinates, properties,
                   temp_bezier_nodes, in_bezier, first_row, first_row_is_bezier,
                   coordinates_list, properties_list, more_segments, err,
                   features, returned, bezier_calls, row_log, finish_log,
                   chain_log, cursor_log, enum_vars, dispatched>>

\* the for loop of line 160 ends: next() raises StopIteration and _parse
\* returns
Parsed ==
    /\ pc = "parse"
    /\ __next__(idx).stop
    /\ idx' = __next__(idx).idx
    /\ cursor_log' = Append(cursor_log, NextNote(idx))
    /\ pc' = "parsed"
    /\ UNCHANGED <<seq, mode, bezier_resolution, coordinates, properties,
                   temp_bezier_nodes, in_bezier, first_row, first_row_is_bezier,
                   coordinates_list, properties_list, more_segments, err,
                   features, returned, bezier_calls, row_log, finish_log,
                   chain_log, enum_vars, parse_vars>>

ParseNext ==
    \/ Skip
    \/ Header
    \/ LineSegment
    \/ LineCurve
    \/ RingSegment
    \/ RingCurve
    \/ EndSegment
    \/ EndCurve
    \/ Unrelated
    \/ Exhausted
    \/ FromRowIterator
    \/ Keep
    \/ Parsed

ParseSpec == ParseInit /\ [][ParseNext]_vars

\* ============================================================ properties
\* the point (lon, lat) of a record
PointOf(tokens) == Point(Tok(tokens, 2), Tok(tokens, 1))

First(s) == s[1]

Last(s) == s[Len(s)]

Distinct(coords) == FixedCoordinates(coords, 1, <<>>)

\* the passes of the while loop that have ended, and where each began
Chains == 1..Len(chain_log)

ChainFirst(i) == IF i = 1 THEN 0 ELSE chain_log[i - 1].resume

ChainBase(i) == IF i = 1 THEN 0 ELSE chain_log[i - 1].paths

FinishBase(i) == IF i = 1 THEN 0 ELSE chain_log[i - 1].finishes

ChainRows(i) == ChainFirst(i)..chain_log[i].last

\* the pass that ended last stopped at a record of another kind
StoppedByOther ==
    chain_log # <<>> /\ Last(chain_log).why = "other"

\* ------------------------------------------------------------------- C1
\* C1 (pushback correctness): when get_paths stopped because it read a
\* record that is none of the six geometry kinds, the first next() on the
\* same cursor after get_paths returned gives that very record: the one at
\* the index get_paths had read.
C1_PushbackCorrectness ==
    (pc = "end" /\ StoppedByOther) =>
        /\ returned.kind = "row"
        /\ returned.index = Last(chain_log).last
        /\ RowAt(returned.index).row_code \notin GeometryCodes

\* get_paths emitted a path, then met a record of another kind that is not
\* the last of the sequence, and the caller has called next()
C1_Witness ==
    /\ pc = "end"
    /\ StoppedByOther
    /\ coordinates_list # <<>>
    /\ Last(chain_log).last + 1 < Len(seq)

\* ------------------------------------------------------------------- C2
Carries(props, key, x) == x = <<>> \/ (key \in DOMAIN props /\ props[key] = x[1])

CarriesLineTypes(props, e) ==
    LET k == IF e.is_bezier THEN 5 ELSE 3
    IN  /\ Carries(props, "painted_line_type", OptionalInt(e.tokens, k))
        /\ Carries(props, "lighting_line_type", OptionalInt(e.tokens, k + 1))

\* C2 (attribute split contiguity): in line mode, a record followed by at
\* least one more record whose painted or lighting line type differs from the
\* accumulator's makes get_paths emit the accumulated path, ending at that
\* record's point; the next emitted path begins at that point and carries
\* that record's line types.
C2_AttributeSplitContiguity ==
    mode = "line" =>
        \A k \in 1..Len(row_log) :
            LET e == row_log[k]
            IN  (e.changes /\ e.has_next) =>
                    /\ e.emitted = 1
                    /\ TupleEq(Last(coordinates_list[e.n_paths]), PointOf(e.tokens))
                    /\ Len(coordinates_list) > e.n_paths =>
                           /\ TupleEq(First(coordinates_list[e.n_paths + 1]),
                                      PointOf(e.tokens))
                           /\ CarriesLineTypes(properties_list[e.n_paths + 1], e)

\* ------------------------------------------------------------------- C3
\* the accumulator _finish_segment was given in the call a row_log entry notes
Finished(e) == finish_log[e.finishes].coordinates

C3_WitnessNotEmitted ==
    /\ mode = "line"
    /\ \E k \in 1..Len(row_log) :
           /\ row_log[k].changes
           /\ row_log[k].has_next
           /\ row_log[k].finished
           /\ row_log[k].emitted = 0

StraightRing(i) ==
    /\ chain_log[i].why = "ring"
    /\ \A k \in ChainRows(i) : RowAt(k).row_code \in {LINE_SEGMENT, RING_SEGMENT}

TwoPlaces(i) ==
    \E j, k \in ChainRows(i) :
        ~TupleEq(PointOf(RowAt(j).tokens), PointOf(RowAt(k).tokens))

\* C4 (ring closure, polygon mode): a chain of straight records with at least
\* two distinct points that ends with a ring-closing record yields exactly one
\* path, whose first and last coordinates are the point of the chain's first
\* record.
C4_RingClosure ==
    mode = "polygon" =>
        \A i \in Chains :
            (StraightRing(i) /\ TwoPlaces(i)) =>
                /\ chain_log[i].paths = ChainBase(i) + 1
                /\ TupleEq(First(coordinates_list[chain_log[i].paths]),
                           PointOf(RowAt(ChainFirst(i)).tokens))
                /\ TupleEq(Last(coordinates_list[chain_log[i].paths]),
                           PointOf(RowAt(ChainFirst(i)).tokens))

\* a triangle: three straight records at three places, the last one closing
C4_Witness ==
    /\ mode = "polygon"
    /\ \E i \in Chains :
           /\ StraightRing(i)
           /\ TwoPlaces(i)
           /\ chain_log[i].last = ChainFirst(i) + 2
           /\ Len(coordinates_list[chain_log[i].paths]) = 4

\* ------------------------------------------------------------------- C5
\* the accumulator the pass's closing _finish_segment was given
ChainCoordinates(i) == finish_log[chain_log[i].finishes].coordinates

\* C5 (short-segment drop): in line mode a chain whose accumulated
\* coordinates reduce to exactly one distinct point once consecutive
\* duplicates are removed gives no path, and no error.
C5_ShortSegmentDrop ==
    mode = "line" =>
        /\ pc # "error"
        /\ \A i \in Chains :
               (/\ chain_log[i].finishes = FinishBase(i) + 1
                /\ Len(Distinct(ChainCoordinates(i))) = 1) =>
                   chain_log[i].paths = ChainBase(i)

\* ------------------------------------------------------------------- C6
\* C6 (emission threshold): every coordinate sequence get_paths returns has,
\* duplicates removed, more than 1 point in line mode and more than 2 points
\* in polygon mode.
C6_EmissionThreshold ==
    pc = "done" =>
        \A i \in 1..Len(coordinates_list) :
            Len(Distinct(coordinates_list[i])) > (IF mode = "polygon" THEN 2 ELSE 1)

\* ------------------------------------------------------------------- C7
\* C7 (feature-level size): every ring Boundary / Pavement keep has more than
\* 2 points and every LinearFeature has more than 1 point.
C7_FeatureSize ==
    pc \in {"feature", "end"} =>
        \A i \in 1..Len(features) :
            Len(features[i]) > (IF mode = "polygon" THEN 2 ELSE 1)

\* from_row_iterator kept a ring and dropped a path of get_paths
C7_Witness ==
    /\ pc = "feature"
    /\ mode = "polygon"
    /\ features # <<>>
    /\ Len(features) < Len(coordinates_list)

\* ------------------------------------------------------------------- C8
NoAdjacentEqual(coords) ==
    \A j \in 1..(Len(coords) - 1) : ~TupleEq(coords[j], coords[j + 1])

\* C8 (no consecutive duplicates): in either mode no coordinate sequence
\* get_paths returns has two adjacent points equal on both axes.
C8_NoConsecutiveDuplicates ==
    \A i \in 1..Len(coordinates_list) : NoAdjacentEqual(coordinates_list[i])

\* _finish_segment emitted an accumulator that held adjacent equal points
C8_Witness ==
    \E k \in 1..Len(finish_log) :
        /\ finish_log[k].emitted
        /\ ~NoAdjacentEqual(finish_log[k].coordinates)
        /\ Len(Distinct(finish_log[k].coordinates)) > 1

\* ------------------------------------------------------------------- C9
\* what _finish_segment emits for an accumulator holding coords
FinishOutcome(coords) ==
    _finish_segment([Frame EXCEPT !.coordinates = coords,
                                  !.coordinates_list = <<>>,
                                  !.properties_list = <<>>]).coordinates_list

\* C9 (dedup idempotence): finishing an accumulator that holds consecutive
\* duplicates gives the same outcome, the same path or the same absence of a
\* path, as finishing it with the duplicates already removed.
C9_DedupIdempotence ==
    \A k \in 1..Len(finish_log) :
        FinishOutcome(finish_log[k].coordinates)
            = FinishOutcome(Distinct(finish_log[k].coordinates))

\* ------------------------------------------------------------------ C10
\* C10 (degenerate-curve short-circuit): for 3 and for 4 nodes and for every
\* resolution, a Bezier evaluation whose first and last control nodes are the
\* same point returns exactly one point, that node.
C10_DegenerateCurve ==
    \A k \in 1..Len(bezier_calls) :
        LET e == bezier_calls[k]
        IN  TupleEq(First(e.nodes), Last(e.nodes)) =>
                (e.n = 1 /\ TupleEq(e.first, First(e.nodes)))

\* ------------------------------------------------------------------ C11
\* a _calculate_bezier call whose first and last node are different points
NonDegenerate(e) == ~TupleEq(First(e.nodes), Last(e.nodes))

\* C11, as amended: a non-degenerate curve evaluated at resolution R >= 2
\* gives exactly R points, the first the start anchor and the last the end
\* anchor; at R = 1 it gives exactly one point, the start anchor.
C11_ResolutionFromTwo ==
    \A k \in 1..Len(bezier_calls) :
        LET e == bezier_calls[k]
        IN  NonDegenerate(e) =>
                /\ e.n = e.resolution
                /\ TupleEq(e.first, First(e.nodes))
                /\ IF e.resolution >= 2
                   THEN TupleEq(e.last, Last(e.nodes))
                   ELSE TupleEq(e.last, First(e.nodes))

\* one call evaluated a cubic at resolution 1 and a quadratic at the default
\* resolution, both non-degenerate
C11_Witness ==
    /\ \E k \in 1..Len(bezier_calls) :
           /\ NonDegenerate(bezier_calls[k])
           /\ bezier_calls[k].resolution = 1
           /\ Len(bezier_calls[k].nodes) = 4
    /\ \E k \in 1..Len(bezier_calls) :
           /\ NonDegenerate(bezier_calls[k])
           /\ bezier_calls[k].resolution = DEFAULT_BEZIER_RESOLUTION
           /\ Len(bezier_calls[k].nodes) = 3

\* C11, as stated: for every resolution R >= 1 a non-degenerate curve gives
\* exactly R points, the first the start anchor and the last the end anchor.
C11_ResolutionInvariant ==
    \A k \in 1..Len(bezier_calls) :
        LET e == bezier_calls[k]
        IN  NonDegenerate(e) =>
                /\ e.n = e.resolution
                /\ TupleEq(e.first, First(e.nodes))
                /\ TupleEq(e.last, Last(e.nodes))

\* ------------------------------------------------------------------ C12
\* C12 (the caller's resolution controls every curve): every non-degenerate
\* Bezier evaluation of a get_paths call with resolution R contributes
\* exactly R samples, whether a curve follows a curve, a curve follows a
\* straight record or a straight record follows a curve.
C12_CallerResolution ==
    \A k \in 1..Len(bezier_calls) :
        NonDegenerate(bezier_calls[k]) => bezier_calls[k].n = bezier_resolution

\* ------------------------------------------------------------------ C13
\* C13 (no splitting in polygon mode): whatever line types the records
\* carry, in polygon mode no _process_row call finalizes the accumulator or
\* moves the cursor back, so every chain is finalized once, when it ends,
\* and contributes at most one path.
C13_NoSplitInPolygonMode ==
    mode = "polygon" =>
        /\ \A k \in 1..Len(row_log) :
               /\ ~row_log[k].finished
               /\ ~row_log[k].rewound
               /\ row_log[k].emitted = 0
        /\ \A i \in Chains :
               /\ chain_log[i].finishes = FinishBase(i) + 1
               /\ chain_log[i].paths <= ChainBase(i) + 1

\* in polygon mode a record that another record follows carried a line type
\* different from the accumulator's, and its chain gave one path
C13_Witness ==
    /\ mode = "polygon"
    /\ pc = "done"
    /\ coordinates_list # <<>>
    /\ \E k \in 1..Len(row_log) : row_log[k].changes /\ row_log[k].has_next

\* ------------------------------------------------------------------ C14
\* C14 (attributes are empty in polygon mode): every attribute mapping
\* get_paths returns in polygon mode is empty, even when the records carry
\* painted or lighting line types.
C14_NoAttributesInPolygonMode ==
    mode = "polygon" =>
        \A i \in 1..Len(properties_list) : properties_list[i] = NoProperties

\* ------------------------------------------------------------------ C15
\* the numbers of the pair (tokens[i + 1], tokens[i]): longitude first
LonLat(tokens, i) == <<Tok(tokens, i + 1) * Scale, Tok(tokens, i) * Scale>>

Pair(p) == <<p.x, p.y>>

\* C15 (axis order): a straight record with tokens[1] = latitude and
\* tokens[2] = longitude leaves (longitude, latitude) as the last point of the
\* accumulator; a curve record leaves its anchor (tokens[2], tokens[1]) and
\* its control point (tokens[4], tokens[3]) as the pending nodes.
C15_AxisOrder ==
    \A k \in 1..Len(row_log) :
        LET e == row_log[k]
        IN  IF e.is_bezier
            THEN /\ Len(e.nodes) = 2
                 /\ Pair(e.nodes[1]) = LonLat(e.tokens, 1)
                 /\ Pair(e.nodes[2]) = LonLat(e.tokens, 3)
            ELSE /\ e.point # <<>>
                 /\ Pair(e.point[1]) = LonLat(e.tokens, 1)

\* a straight record and a curve record were processed whose latitudes
\* differ from their longitudes
C15_Witness ==
    /\ \E k \in 1..Len(row_log) :
           /\ ~row_log[k].is_bezier
           /\ Tok(row_log[k].tokens, 1) # Tok(row_log[k].tokens, 2)
    /\ \E k \in 1..Len(row_log) :
           /\ row_log[k].is_bezier
           /\ Tok(row_log[k].tokens, 1) # Tok(row_log[k].tokens, 2)
           /\ Tok(row_log[k].tokens, 3) # Tok(row_log[k].tokens, 4)

\* ------------------------------------------------------------------ C16
CursorCalls == 1..Len(cursor_log)

\* no call before the k-th gave a record
NothingConsumed(k) == \A j \in 1..(k - 1) : cursor_log[j].result # "row"

\* C16 (pushback underflow on a fresh cursor): unnext() on a cursor from
\* which nothing has been consumed raises the underflow error and leaves the
\* position unchanged, so a next() right after it gives the first record.
C16_UnderflowOnFreshCursor ==
    \A k \in CursorCalls :
        (cursor_log[k].op = "unnext" /\ NothingConsumed(k)) =>
            /\ cursor_log[k].result = "IndexError"
            /\ cursor_log[k].after = cursor_log[k].before
            /\ (/\ k < Len(cursor_log)
                /\ cursor_log[k + 1].op = "next"
                /\ seq # <<>>) =>
                   /\ cursor_log[k + 1].result = "row"
                   /\ cursor_log[k + 1].index = 0

\* unnext() on a fresh cursor over a non-empty sequence, then next()
C16_Witness ==
    \E k \in CursorCalls :
        /\ cursor_log[k].op = "unnext"
        /\ NothingConsumed(k)
        /\ k < Len(cursor_log)
        /\ cursor_log[k + 1].op = "next"
        /\ cursor_log[k + 1].result = "row"

\* ------------------------------------------------------------------ C17
\* an unnext() was called before the k-th call with no next() since
UnnextSinceNext(k) ==
    \E j \in 1..(k - 1) :
        /\ cursor_log[j].op = "unnext"
        /\ \A m \in (j + 1)..(k - 1) : cursor_log[m].op # "next"

C18_HasNextAgreesWithNext ==
    \A k \in CursorCalls :
        cursor_log[k].op = "has_next" =>
            /\ cursor_log[k].after = cursor_log[k].before
            /\ (k < Len(cursor_log) /\ cursor_log[k + 1].op = "next") =>
                   (cursor_log[k].result = "True"
                        <=> cursor_log[k + 1].result = "row")

\* next() hit the end of the sequence, then has_next() and next() were
\* called; and in the same run has_next() said True before a next()
C18_Witness ==
    /\ \E k \in CursorCalls :
           /\ k + 2 <= Len(cursor_log)
           /\ cursor_log[k].result = "StopIteration"
           /\ cursor_log[k + 1].op = "has_next"
           /\ cursor_log[k + 2].op = "next"
    /\ \E k \in CursorCalls :
           /\ k < Len(cursor_log)
           /\ cursor_log[k].op = "has_next"
           /\ cursor_log[k].result = "True"
           /\ cursor_log[k + 1].op = "next"

\* ------------------------------------------------------------------ C19
\* the first record the i-th pass read is a ring-closing record
RingFirst(i) ==
    /\ ChainFirst(i) <= chain_log[i].last
    /\ RowAt(ChainFirst(i)).row_code \in {RING_SEGMENT, RING_CURVE}

\* C19 (unexpected sequencing fails fast): when the first record get_paths
\* reads for a chain is a ring-closing record, get_paths raises an error
\* instead of returning a result.
C19_RingFirstFailsFast ==
    pc = "done" => \A i \in Chains : ~RingFirst(i)

\* ------------------------------------------------------------------ C20
Geometry(j) == RowAt(j).row_code \in GeometryCodes

\* C20, as amended: a get_paths call reconstructs chain after chain; a
\* chain-terminating or ring-closing record does not make it return, another
\* pass of its loop follows.  It returns only at a record that is none of the
\* six geometry kinds, which the next next() then yields, or at the end of
\* the sequence, where the next next() yields end-of-sequence; every record
\* before that point is a geometry record it has consumed.  (A later record
\* that is malformed makes the call raise instead of returning.)
C20_ChainsUntilOtherRecord ==
    /\ \A i \in Chains :
           chain_log[i].why \in {"end", "ring"} =>
               (i < Len(chain_log) \/ pc \in {"for", "error"})
    /\ pc = "end" =>
           IF returned.kind = "row"
           THEN /\ ~Geometry(returned.index)
                /\ \A j \in 0..(returned.index - 1) : Geometry(j)
           ELSE \A j \in 0..(Len(seq) - 1) : Geometry(j)

\* a terminator ended a chain that gave a path, the same call went on to
\* consume the geometry record after it, and the caller has called next()
C20_Witness ==
    /\ pc = "end"
    /\ Len(chain_log) >= 2
    /\ chain_log[1].why \in {"end", "ring"}
    /\ chain_log[1].paths = 1
    /\ chain_log[2].why # "other"
    /\ chain_log[2].last > chain_log[1].last

\* C20, as stated: after get_paths has processed a chain-terminating or
\* ring-closing record it returns, and the next next() yields the record
\* right after that terminator, whatever its kind (end-of-sequence when the
\* terminator is the last record).
C20_OneChainPerCall ==
    (pc = "end" /\ chain_log[1].why \in {"end", "ring"}) =>
        IF chain_log[1].last + 1 < Len(seq)
        THEN returned.kind = "row" /\ returned.index = chain_log[1].last + 1
        ELSE returned.kind = "StopIteration"

\* ------------------------------------------------------------------ C21
\* the pass that ended last ran out of records
RanOut == chain_log # <<>> /\ Last(chain_log).why = "exhausted"

\* C21 (truncated input is tolerated): when the cursor is exhausted before a
\* chain-terminating or ring-closing record is read, get_paths returns
\* without an error; the accumulator is handed to _finish_segment as at the
\* end of any pass, which emits it, duplicates removed, when it holds more
\* than one coordinate; and the cursor is left exhausted: has_next() is
\* false and the caller's next() gives end-of-sequence.
C21_TruncatedInputTolerated ==
    RanOut =>
        /\ pc \in {"done", "feature", "end"}
        /\ err = "none"
        /\ finish_log # <<>>
        /\ Last(finish_log).coordinates = coordinates
        /\ Last(finish_log).emitted <=> Len(coordinates) > 1
        /\ Last(finish_log).emitted =>
               Last(coordinates_list) = Distinct(coordinates)
        /\ idx = Len(seq) - 1
        /\ ~has_next(idx)
        /\ pc = "end" => returned.kind = "StopIteration"

\* a sequence without any terminator ran out while the accumulator held a
\* path, which was emitted, and the caller has called next()
C21_Witness ==
    /\ RanOut
    /\ pc = "end"
    /\ Len(chain_log) = 1
    /\ Len(seq) >= 2
    /\ Last(finish_log).emitted
    /\ chain_log[1].paths = Len(coordinates_list)

\* ------------------------------------------------------------------ C22
\* the decodings of a code that is not the value of a member of the class
UnknownCode(d) == d.value # <<>> /\ d.value[1] \notin Members(d.cls)

\* C22 (unknown-code warning at most once): over any sequence of decodings
\* an unknown code never fails and yields a fallback named UNKNOWN_<code>; a
\* warning is logged for a pair (enum class, code) only when that pair is
\* decoded, and no pair is warned about twice.
C22_UnknownWarnedOnce ==
    /\ \A k \in 1..Len(decoded) :
           UnknownCode(decoded[k]) =>
               /\ ~decoded[k].raised
               /\ decoded[k].name.kind = "Fallback"
               /\ decoded[k].name.text = <<"UNKNOWN_", decoded[k].value[1]>>
    /\ \A j, k \in 1..Len(warnings) :
           (warnings[j].cls = warnings[k].cls
                /\ warnings[j].value = warnings[k].value) => j = k
    /\ \A k \in 1..Len(warnings) :
           \E j \in 1..Len(decoded) :
               /\ UnknownCode(decoded[j])
               /\ decoded[j].cls = warnings[k].cls
               /\ decoded[j].value = warnings[k].value

\* one unknown pair was decoded three times and warned about once, and the
\* same code was decoded without a warning by the class that knows it
C22_Witness ==
    /\ \E i, j, k \in 1..Len(decoded) :
           /\ i < j /\ j < k
           /\ UnknownCode(decoded[i])
           /\ decoded[i].cls = decoded[j].cls /\ decoded[j].cls = decoded[k].cls
           /\ decoded[i].value = decoded[j].value
           /\ decoded[j].value = decoded[k].value
           /\ decoded[i].warned /\ ~decoded[j].warned /\ ~decoded[k].warned
    /\ Len(warnings) = 1
    /\ \E k \in 1..Len(decoded) :
           /\ ~UnknownCode(decoded[k])
           /\ decoded[k].value = warnings[1].value

\* ------------------------------------------------------------------ C23
\* C23 (warning dedup is scoped per conversion): the set of pairs already
\* warned about is reset at each ParsedAirport construction, so every unknown
\* pair decoded while an airport is parsed is warned about while that airport
\* is parsed, also when an earlier airport met it.
C23_DedupPerConversion ==
    \A k \in 1..Len(decoded) :
        UnknownCode(decoded[k]) =>
            \E j \in 1..Len(warnings) :
                /\ warnings[j].cls = decoded[k].cls
                /\ warnings[j].value = decoded[k].value
                /\ warnings[j].airport = decoded[k].airport

\* ------------------------------------------------------------------ C24
\* C24 (ring closure in either mode): for every chain a ring-closing record
\* ended, in line mode and in polygon mode and also when line types change
\* along the chain or at the ring-closing record, the last path emitted for
\* the chain ends at the point of the chain's first record, and the
\* ring-closing record is not read from the cursor again: the next record
\* read is the one after it.
C24_RingClosureEitherMode ==
    \A i \in Chains :
        chain_log[i].why = "ring" =>
            /\ chain_log[i].resume = chain_log[i].last + 1
            /\ chain_log[i].paths > ChainBase(i) =>
                   TupleEq(Last(coordinates_list[chain_log[i].paths]),
                           PointOf(RowAt(ChainFirst(i)).tokens))

\* ------------------------------------------------------------------ C25
\* 2 * anchor - control of a curve record, longitude first
Reflection(tokens) ==
    <<(2 * Tok(tokens, 2) - Tok(tokens, 4)) * Scale,
      (2 * Tok(tokens, 1) - Tok(tokens, 3)) * Scale>>

Pairs(nodes) == [j \in 1..Len(nodes) |-> Pair(nodes[j])]

\* the k-th and the one before it are _process_row calls for curve records
\* of the same chain
CurveAfterCurve(k) ==
    /\ row_log[k - 1].is_bezier
    /\ row_log[k].is_bezier
    /\ row_log[k - 1].chain = row_log[k].chain

\* C25 (control nodes of consecutive curve records): when a curve record B
\* is processed right after a curve record A of the same chain, the
\* evaluator is called once, with the four nodes A's anchor, A's control
\* point as stored, the reflection 2 * anchor - control of B's control point
\* through B's anchor, and B's anchor; afterwards the pending nodes are B's
\* anchor and B's control point.
C25_ConsecutiveCurveNodes ==
    \A k \in 2..Len(row_log) :
        CurveAfterCurve(k) =>
            LET a == row_log[k - 1].tokens
                b == row_log[k].tokens
            IN  /\ row_log[k].called = 1
                /\ Pairs(bezier_calls[row_log[k].calls].nodes)
                       = <<LonLat(a, 1), LonLat(a, 3), Reflection(b), LonLat(b, 1)>>
                /\ Pairs(row_log[k].nodes) = <<LonLat(b, 1), LonLat(b, 3)>>

\* a curve record followed a curve record at another place in the same chain
C25_Witness ==
    \E k \in 2..Len(row_log) :
        /\ CurveAfterCurve(k)
        /\ LonLat(row_log[k - 1].tokens, 1) # LonLat(row_log[k].tokens, 1)
        /\ bezier_calls[row_log[k].calls].n = MaxRes

\* ------------------------------------------------------------------ C26
\* C26 (pending control nodes): between two record-processing steps
\* temp_bezier_nodes is empty when no curve continuation is pending and
\* holds exactly 2 points when one is; the evaluator is only ever called
\* with 3 or 4 nodes; and a straight record that arrives while a
\* continuation is pending is appended as the last of 3 nodes, the curve is
\* evaluated, and the pending list is left empty.
C26_PendingNodes ==
    /\ Len(temp_bezier_nodes) = (IF in_bezier THEN 2 ELSE 0)
    /\ \A k \in 1..Len(bezier_calls) : Len(bezier_calls[k].nodes) \in {3, 4}
    /\ \A k \in 1..Len(row_log) :
           LET e == row_log[k]
           IN  /\ Len(e.nodes) = (IF e.is_bezier THEN 2 ELSE 0)
               /\ (~e.is_bezier /\ e.was_bezier) =>
                      /\ e.called = 1
                      /\ Len(bezier_calls[e.calls].nodes) = 3
                      /\ Pair(Last(bezier_calls[e.calls].nodes))
                             = LonLat(e.tokens, 1)

\* a straight record arrived while a continuation was pending, after a
\* curve record had followed a curve record, and a curve is pending again
C26_Witness ==
    /\ in_bezier
    /\ \E k \in 1..Len(row_log) : ~row_log[k].is_bezier /\ row_log[k].was_bezier
    /\ \E k \in 1..Len(bezier_calls) : Len(bezier_calls[k].nodes) = 4

\* ------------------------------------------------------------------ C27
\* an unnext() was called before the k-th call and no next() has given a
\* record since
PushedBack(k) ==
    \E j \in 1..(k - 1) :
        /\ cursor_log[j].op = "unnext"
        /\ \A m \in (j + 1)..(k - 1) : cursor_log[m].result # "row"

\* C27 (one level of pushback is all get_paths needs): in every execution of
\* get_paths, in either mode, with line types changing on ring-closing
\* records and on the first record processed again, unnext() is never called
\* twice without a next() that gave a record in between, and unnext() never
\* raises the underflow error.
C27_OneLevelSuffices ==
    \A k \in CursorCalls :
        cursor_log[k].op = "unnext" =>
            /\ cursor_log[k].result = "None"
            /\ ~PushedBack(k)

\* the k-th _process_row call is the one of line 201 or 205
FirstRowAgain(k) ==
    /\ k > 1
    /\ row_log[k - 1].chain = row_log[k].chain
    /\ Tok(row_log[k - 1].tokens, 0) \in {RING_SEGMENT, RING_CURVE}

\* one call had the cursor moved back at a ring-closing record, another at
\* the first record processed again, and both went on to a later unnext()
C27_Witness ==
    /\ pc = "done"
    /\ \E k \in 1..Len(row_log) : FirstRowAgain(k) /\ row_log[k].rewound
    /\ \E j, k \in CursorCalls :
           j < k /\ cursor_log[j].op = "unnext" /\ cursor_log[k].op = "unnext"

\* ------------------------------------------------------------------ C28
\* a geometry record with too few tokens for its kind
Malformed(row) ==
    /\ row.row_code \in GeometryCodes
    /\ Len(row.tokens) < (IF row.row_code \in CurveCodes THEN 5 ELSE 3)

\* C28 (malformed records fail fast): once get_paths has read a geometry
\* record with fewer than 3 tokens (straight) or fewer than 5 (curve), it has
\* raised an error that identifies that record, and the call returns no
\* paths.
C28_MalformedFailsFast ==
    \A j \in 0..idx :
        Malformed(RowAt(j)) =>
            /\ pc = "error"
            /\ err # "none"
            /\ ErrorSays(err).record = <<j>>
            /\ features = <<>>

\* ------------------------------------------------------------------ C29
\* how many times next() gave the record at index j
ReadsOf(j) ==
    Cardinality({k \in CursorCalls :
                    cursor_log[k].op = "next" /\ cursor_log[k].index = j})

\* C29 (termination despite rewinds): for every record sequence, in either
\* mode and with any line types, get_paths terminates, by returning or by
\* raising; the _process_row call after one that moved the cursor back finds
\* no line type changed and does not move the cursor back again, so that no
\* record is read more than twice.
C29_TerminatesDespiteRewinds ==
    /\ <>(pc # "for")
    /\ [](\A k \in 1..(Len(row_log) - 1) :
              row_log[k].rewound =>
                  (~row_log[k + 1].changes /\ ~row_log[k + 1].rewound))
    /\ [](\A j \in 0..(Len(seq) - 1) : ReadsOf(j) <= 2)

\* get_paths returned after two attribute splits, each of which had a record
\* read a second time
C29_Witness ==
    /\ pc = "done"
    /\ \E j, k \in 1..Len(row_log) :
           j < k /\ row_log[j].rewound /\ row_log[k].rewound
    /\ \E i, j \in 0..(Len(seq) - 1) : i < j /\ ReadsOf(i) = 2 /\ ReadsOf(j) = 2

\* ------------------------------------------------------------------ C30
\* C30 (cursor position invariant): after any sequence of next(), unnext()
\* and has_next() calls on a sequence of length n the index lies within
\* -1..n-1, and a call that failed, a next() at the end or an unnext() at the
\* start, leaves the index exactly as it was before the call.
C30_CursorPosition ==
    /\ idx \in -1..(Len(seq) - 1)
    /\ \A k \in CursorCalls :
           /\ cursor_log[k].after \in -1..(Len(seq) - 1)
           /\ cursor_log[k].result \in {"StopIteration", "IndexError"} =>
                  cursor_log[k].after = cursor_log[k].before
           /\ k < Len(cursor_log) => cursor_log[k + 1].before = cursor_log[k].after

\* on a sequence that is not empty a next() failed at the end and, later, an
\* unnext() failed at the start
C30_Witness ==
    /\ seq # <<>>
    /\ \E j, k \in CursorCalls :
           /\ j < k
           /\ cursor_log[j].result = "StopIteration"
           /\ cursor_log[k].result = "IndexError"

\* ------------------------------------------------------------------ C31
\* how many times the loop of _parse got the record of index j
TimesDispatched(j) ==
    Cardinality({k \in 1..Len(dispatched) : dispatched[k] = j})

\* C31 (no record lost or dispatched twice by the top-level loop): _parse
\* and get_paths share one cursor, and every record that is none of the six
\* geometry kinds is given to the loop of _parse exactly once, in input
\* order, whatever chains, attribute splits and pushbacks occur in between:
\* the loop never gets a record again or out of order, at any moment it has
\* got every such record up to the cursor, and when _parse returns the
\* cursor is at the last record.
C31_EveryOtherRecordDispatchedOnce ==
    /\ \A k \in 1..(Len(dispatched) - 1) : dispatched[k] < dispatched[k + 1]
    /\ \A k \in 1..Len(dispatched) : dispatched[k] <= idx
    /\ \A j \in 0..idx : ~Geometry(j) => TimesDispatched(j) = 1
    /\ \A j \in 0..(Len(seq) - 1) : TimesDispatched(j) <= 1
    /\ pc = "parsed" =>
           /\ idx = Len(seq) - 1
           /\ \A j \in 0..(Len(seq) - 1) : ~Geometry(j) => TimesDispatched(j) = 1

\* _parse has returned; a get_paths call it made for a header split a chain
\* at a change of line type (has_next() then unnext()), pushed back the
\* record after the chain, and that record was then given to _parse
C31_Witness ==
    /\ pc = "parsed"
    /\ \E k \in 1..(Len(cursor_log) - 1) :
           /\ cursor_log[k].op = "has_next"
           /\ cursor_log[k + 1].op = "unnext"
    /\ \E k \in 2..(Len(cursor_log) - 1) :
           /\ cursor_log[k - 1].op = "next"
           /\ cursor_log[k].op = "unnext"
           /\ cursor_log[k + 1].op = "next"
           /\ cursor_log[k + 1].result = "row"
           /\ \E d \in 2..Len(dispatched) :
                  /\ dispatched[d] = cursor_log[k + 1].index
                  /\ RowAt(dispatched[d - 1]).row_code \in HeaderCodes
                  /\ dispatched[d] > dispatched[d - 1] + 1

\* ------------------------------------------------------------------ C32
\* the _finish_segment calls that appended a path, in order
EmittedFinishes == SelectSeq(finish_log, LAMBDA e : e.emitted)

\* C32 (cursor position on return): whenever get_paths returns normally, the
\* cursor is either exhausted or its next record is of a kind outside the six
\* geometry kinds; the one call has consumed every consecutive geometry
\* chain, each record up to the cursor being a geometry record read in one of
\* its passes, and the one list it returns holds the paths of all of them:
\* what every pass's _finish_segment appended, in order, with as many
\* property entries.
C32_ReturnsAfterEveryChain ==
    pc \in {"done", "feature"} =>
        /\ ~has_next(idx) \/ ~Geometry(idx + 1)
        /\ \A j \in 0..idx :
               /\ Geometry(j)
               /\ \E i \in Chains : j \in ChainRows(i)
        /\ \A i \in Chains : chain_log[i].finishes > FinishBase(i)
        /\ Len(coordinates_list) = Len(EmittedFinishes)
        /\ Len(properties_list) = Len(coordinates_list)
        /\ \A k \in 1..Len(coordinates_list) :
               coordinates_list[k] = Distinct(EmittedFinishes[k].coordinates)

\* a pavement's outer ring and its hole, then the header of the next
\* feature: one call closed both rings, returned the two of them in one list
\* with the cursor before that header, and from_row_iterator kept both
C32_Witness ==
    /\ pc = "feature"
    /\ mode = "polygon"
    /\ Len(chain_log) = 3
    /\ chain_log[1].why = "ring" /\ chain_log[1].last = 1
    /\ chain_log[2].why = "ring" /\ chain_log[2].last = 3
    /\ chain_log[3].why = "other"
    /\ idx = 3
    /\ has_next(idx)
    /\ Len(coordinates_list) = 2
    /\ Len(features) = 2
    /\ \A k \in 1..2 : Len(features[k]) >= 3

====
